---- MODULE Spec2Model ----
(***************************************************************************)
(* folder-synchronizer: one-way periodic mirroring of a source directory   *)
(* tree into a replica directory tree (src/file_synchronizer.py, driven by *)
(* src/main.py).                                                           *)
(*                                                                         *)
(* The file system is one tree of absolute paths (sequences of names); the *)
(* two roots are paths inside it.  A node is a directory or a regular file *)
(* with content, modification time and a write-permission bit.             *)
(***************************************************************************)
EXTENDS Integers, Sequences, FiniteSets, TLC

VARIABLES
    fs,             \* the file system: existing absolute path -> node
    source_dir,     \* self.source_dir
    replica_dir,    \* self.replica_dir
    period,         \* self.period
    main_pc,        \* position of the main thread: "initialize", "run", "loop"
    now,            \* datetime.datetime.now(), in seconds
    prev_call_time, \* local variable of run()
    workers,        \* every threading.Thread started by run(), oldest first;
                    \* the variable t of run() is the last one
    lastLog,        \* what the latest step handed to self.logger
    eligible,       \* history: loop iterations whose condition (line 81) held
    missed,         \* history: loop iterations with the period elapsed while t was alive
    external        \* history: changes other processes have made to the file system

vars == <<fs, source_dir, replica_dir, period, main_pc, now, prev_call_time,
          workers, lastLog, eligible, missed, external>>

----------------------------------------------------------------------------
(* Bounds of the model *)

\* The scheduler specification stops the clock here.
MaxTime == 6
\* The specifications about one pass and its successor stop the clock here.
PassTime == 2
\* time.sleep(1) returns after 1..MaxSleep seconds.
MaxSleep == 2
\* Changes other processes make to the two trees during one run.
MaxExternal == 2
\* Largest --period explored (the smallest is -1: argparse takes any int).
MaxPeriod == 3
\* At most this many replica nodes are read-only at start.
MaxReadOnly == 2

----------------------------------------------------------------------------
(* Paths *)

Root == << >>

Parent(p) == SubSeq(p, 1, Len(p) - 1)

Last(p) == p[Len(p)]

IsPrefix(r, p) == Len(r) <= Len(p) /\ SubSeq(p, 1, Len(r)) = r

\* p lies strictly below directory r
Under(r, p) == IsPrefix(r, p) /\ Len(p) > Len(r)

\* os.path.relpath(p, start) for p below start
relpath(p, start) == SubSeq(p, Len(start) + 1, Len(p))

\* os.path.join(root, rel)
join(root, rel) == root \o rel

Perms(S) == { s \in [1..Cardinality(S) -> S] : \A i, j \in 1..Cardinality(S) : s[i] = s[j] => i = j }

----------------------------------------------------------------------------
(* Nodes.  A file's content is a pair <<digest, variant>>: two contents    *)
(* with the same first component are different byte strings with the same  *)
(* MD5 digest (MD5 maps unboundedly many contents to 128 bits).            *)

DirNode(w) == [kind |-> "dir", data |-> <<0, 0>>, mtime |-> 0, w |-> w]

FileNode(data, mtime, w) == [kind |-> "file", data |-> data, mtime |-> mtime, w |-> w]

Contents == { <<1, 1>>, <<2, 1>>, <<2, 2>> }

\* os.path.exists
exists(f, p) == p = Root \/ p \in DOMAIN f

\* os.path.isdir
isdir(f, p) == p = Root \/ (p \in DOMAIN f /\ f[p].kind = "dir")

isfile(f, p) == p \in DOMAIN f /\ f[p].kind = "file"

\* whether entries may be created in or removed from directory d
writable(f, d) == d = Root \/ f[d].w

Children(f, d) == { p \in DOMAIN f : Len(p) = Len(d) + 1 /\ IsPrefix(d, p) }

\* the relative paths of the entries below a root
Entries(f, root) == { relpath(p, root) : p \in { q \in DOMAIN f : Under(root, q) } }

\* f without the paths in D
Without(f, D) == [p \in (DOMAIN f) \ D |-> f[p]]

\* f with path p holding node n
With(f, p, n) == [q \in (DOMAIN f) \cup {p} |-> IF q = p THEN n ELSE f[q]]

Result(f, err) == [fs |-> f, err |-> err]

----------------------------------------------------------------------------
(* The library calls the synchronizer makes, each returning the new file   *)
(* system and "ok" or the name of the exception raised.                    *)

\* os.mkdir(p)
mkdir(f, p) ==
    IF exists(f, p) THEN Result(f, "FileExistsError")
    ELSE IF ~exists(f, Parent(p)) THEN Result(f, "FileNotFoundError")
    ELSE IF ~isdir(f, Parent(p)) THEN Result(f, "NotADirectoryError")
    ELSE IF ~writable(f, Parent(p)) THEN Result(f, "PermissionError")
    ELSE Result(With(f, p, DirNode(TRUE)), "ok")

\* os.makedirs(name): the missing ancestors first (a FileExistsError of theirs
\* is swallowed), then the leaf
RECURSIVE makedirs(_, _)
makedirs(f, name) ==
    LET head == Parent(name)
        r == IF Len(name) > 0 /\ ~exists(f, head) THEN makedirs(f, head) ELSE Result(f, "ok")
    IN IF r.err \notin {"ok", "FileExistsError"} THEN r ELSE mkdir(r.fs, name)

\* shutil.copy2(src, dst): copyfile (content) then copystat (mtime, mode)
copy2(f, src, dst) ==
    LET target == IF isdir(f, dst) THEN dst \o <<Last(src)>> ELSE dst
    IN IF src = target /\ exists(f, src) THEN Result(f, "SameFileError")
       ELSE IF ~exists(f, src) THEN Result(f, "FileNotFoundError")
       ELSE IF isdir(f, src) THEN Result(f, "IsADirectoryError")
       ELSE IF ~exists(f, Parent(target)) THEN Result(f, "FileNotFoundError")
       ELSE IF ~isdir(f, Parent(target)) THEN Result(f, "NotADirectoryError")
       ELSE IF isdir(f, target) THEN Result(f, "IsADirectoryError")
       ELSE IF exists(f, target) /\ ~f[target].w THEN Result(f, "PermissionError")
       ELSE IF ~exists(f, target) /\ ~writable(f, Parent(target)) THEN Result(f, "PermissionError")
       ELSE Result(With(f, target, FileNode(f[src].data, f[src].mtime, f[src].w)), "ok")

\* os.remove(p)
remove(f, p) ==
    IF ~exists(f, p) THEN Result(f, "FileNotFoundError")
    ELSE IF isdir(f, p) THEN Result(f, "IsADirectoryError")
    ELSE IF ~writable(f, Parent(p)) THEN Result(f, "PermissionError")
    ELSE Result(Without(f, {p}), "ok")

\* os.rmdir(p) of a directory already emptied
rmdir(f, p) ==
    IF ~writable(f, Parent(p)) THEN Result(f, "PermissionError")
    ELSE Result(Without(f, {p}), "ok")

\* shutil.rmtree(p): the entries of p in the order scandir gives them (any),
\* each subdirectory recursively, then p itself; the first error is raised and
\* what was removed before it stays removed.  The set of possible outcomes.
RECURSIVE rmtree(_, _), rmentries(_, _)
rmentries(f, ents) ==
    IF ents = << >> THEN { Result(f, "ok") }
    ELSE UNION { IF r.err = "ok" THEN rmentries(r.fs, Tail(ents)) ELSE { r } :
                 r \in (IF isdir(f, Head(ents)) THEN rmtree(f, Head(ents))
                                                ELSE { remove(f, Head(ents)) }) }

rmtree(f, p) ==
    IF ~exists(f, p) THEN { Result(f, "FileNotFoundError") }
    ELSE IF ~isdir(f, p) THEN { Result(f, "NotADirectoryError") }
    ELSE UNION { { IF r.err = "ok" THEN rmdir(r.fs, p) ELSE r : r \in rmentries(f, ord) } :
                 ord \in Perms(Children(f, p)) }

\* FileSynchronizer.generate_md5: the digest of the file's content
generate_md5(f, path) ==
    IF ~exists(f, path) THEN [digest |-> 0, err |-> "FileNotFoundError"]
    ELSE IF isdir(f, path) THEN [digest |-> 0, err |-> "IsADirectoryError"]
    ELSE [digest |-> f[path].data[1], err |-> "ok"]

\* files_equal gone wrong: never reports two files equal
files_never_equal(f, l, r) ==
    LET dl == generate_md5(f, l)
        dr == generate_md5(f, r)
    IN IF dl.err # "ok" THEN [val |-> FALSE, err |-> dl.err]
       ELSE IF dr.err # "ok" THEN [val |-> FALSE, err |-> dr.err]
       ELSE [val |-> FALSE, err |-> "ok"]

\* files_equal gone wrong: the modification times are compared as well
files_equal_with_mtime(f, l, r) ==
    LET dl == generate_md5(f, l)
        dr == generate_md5(f, r)
    IN IF dl.err # "ok" THEN [val |-> FALSE, err |-> dl.err]
       ELSE IF dr.err # "ok" THEN [val |-> FALSE, err |-> dr.err]
       ELSE [val |-> dl.digest = dr.digest /\ f[l].mtime = f[r].mtime, err |-> "ok"]

\* FileSynchronizer.files_equal: the left digest is computed first
files_equal(f, l, r) ==
    LET dl == generate_md5(f, l)
        dr == generate_md5(f, r)
    IN IF dl.err # "ok" THEN [val |-> FALSE, err |-> dl.err]
       ELSE IF dr.err # "ok" THEN [val |-> FALSE, err |-> dr.err]
       ELSE [val |-> dl.digest = dr.digest, err |-> "ok"]

\* FileSynchronizer.fetch_files_and_dirs: os.walk top-down; per directory its
\* subdirectories, then its files, each group in scandir's (arbitrary) order,
\* then the subdirectories' own listings in that order.  A directory that
\* cannot be listed contributes nothing (os.walk's onerror is None).  The set
\* of lists the call can return.
RECURSIVE fetch_files_and_dirs(_, _), walk_subdirs(_, _)
walk_subdirs(f, ds) ==
    IF ds = << >> THEN { << >> }
    ELSE { x \o y : x \in fetch_files_and_dirs(f, Head(ds)), y \in walk_subdirs(f, Tail(ds)) }

fetch_files_and_dirs(f, directory) ==
    IF ~isdir(f, directory) THEN { << >> }
    ELSE LET dirs  == { p \in Children(f, directory) : f[p].kind = "dir" }
             files == Children(f, directory) \ dirs
         IN UNION { { d \o fl \o sub : fl \in Perms(files), sub \in walk_subdirs(f, d) } :
                    d \in Perms(dirs) }

----------------------------------------------------------------------------
(* The synchronizer *)

NoLog == [level |-> "none", msg |-> "", path |-> << >>]

Log(level, msg, path) == [level |-> level, msg |-> msg, path |-> path]

\* What the body of one loop iteration leaves: the file system, the log
\* record, and "ok" or the exception that leaves the function uncaught.
Step(f, log, err) == [fs |-> f, log |-> log, err |-> err]

\* One iteration of the loop of update_replica, for the item source_path
update_replica(f, source_path) ==
    LET relative_path == relpath(source_path, source_dir)
        replica_path  == join(replica_dir, relative_path)
    IN IF isdir(f, source_path)
       THEN IF ~exists(f, replica_path)
            THEN LET r == makedirs(f, replica_path)
                 IN IF r.err = "ok"
                    THEN Step(r.fs, Log("debug", "Directory created", replica_path), "ok")
                    ELSE IF r.err = "PermissionError"
                    THEN Step(r.fs, Log("warning", "Could not create directory", replica_path), "ok")
                    ELSE Step(r.fs, NoLog, r.err)
            ELSE Step(f, NoLog, "ok")
       ELSE LET eq == IF ~exists(f, replica_path) THEN [val |-> FALSE, err |-> "ok"]
                      ELSE files_equal(f, source_path, replica_path)
            IN IF eq.err # "ok" THEN Step(f, NoLog, eq.err)
               ELSE IF ~eq.val
               THEN LET r == copy2(f, source_path, replica_path)
                    IN IF r.err = "ok"
                       THEN Step(r.fs, Log("debug", "File copied", replica_path), "ok")
                       ELSE IF r.err = "PermissionError"
                       THEN Step(r.fs, Log("warning", "Could not copy file", replica_path), "ok")
                       ELSE Step(r.fs, NoLog, r.err)
               ELSE Step(f, NoLog, "ok")

\* cleanup_replica gone wrong: redundant directories are left alone
cleanup_replica_files_only(f, replica_path) ==
    LET relative_path == relpath(replica_path, replica_dir)
        source_path   == join(source_dir, relative_path)
    IN IF ~exists(f, source_path) /\ exists(f, replica_path) /\ ~isdir(f, replica_path)
       THEN LET r == remove(f, replica_path)
            IN { IF r.err = "ok"
                 THEN Step(r.fs, Log("debug", "File removed", replica_path), "ok")
                 ELSE IF r.err = "PermissionError"
                 THEN Step(r.fs, Log("warning", "Could not remove file", replica_path), "ok")
                 ELSE Step(r.fs, NoLog, r.err) }
       ELSE { Step(f, NoLog, "ok") }

\* cleanup_replica gone wrong: a refused removal is not caught
cleanup_replica_uncaught(f, replica_path) ==
    LET relative_path == relpath(replica_path, replica_dir)
        source_path   == join(source_dir, relative_path)
    IN IF ~exists(f, source_path) /\ exists(f, replica_path)
       THEN IF isdir(f, replica_path)
            THEN { IF r.err = "ok"
                   THEN Step(r.fs, Log("debug", "Directory removed", replica_path), "ok")
                   ELSE Step(r.fs, NoLog, r.err) : r \in rmtree(f, replica_path) }
            ELSE LET r == remove(f, replica_path)
                 IN { IF r.err = "ok"
                      THEN Step(r.fs, Log("debug", "File removed", replica_path), "ok")
                      ELSE Step(r.fs, NoLog, r.err) }
       ELSE { Step(f, NoLog, "ok") }

\* cleanup_replica gone wrong: the replica path is not asked for again before
\* it is removed
cleanup_replica_without_recheck(f, replica_path) ==
    LET relative_path == relpath(replica_path, replica_dir)
        source_path   == join(source_dir, relative_path)
    IN IF ~exists(f, source_path)
       THEN IF isdir(f, replica_path)
            THEN { IF r.err = "ok"
                   THEN Step(r.fs, Log("debug", "Directory removed", replica_path), "ok")
                   ELSE IF r.err = "PermissionError"
                   THEN Step(r.fs, Log("warning", "Could not remove directory", replica_path), "ok")
                   ELSE Step(r.fs, NoLog, r.err) : r \in rmtree(f, replica_path) }
            ELSE LET r == remove(f, replica_path)
                 IN { IF r.err = "ok"
                      THEN Step(r.fs, Log("debug", "File removed", replica_path), "ok")
                      ELSE IF r.err = "PermissionError"
                      THEN Step(r.fs, Log("warning", "Could not remove file", replica_path), "ok")
                      ELSE Step(r.fs, NoLog, r.err) }
       ELSE { Step(f, NoLog, "ok") }

\* cleanup_replica gone wrong: the source is not asked for a counterpart
cleanup_replica_ignoring_source(f, replica_path) ==
    IF exists(f, replica_path)
    THEN IF isdir(f, replica_path)
         THEN { IF r.err = "ok"
                THEN Step(r.fs, Log("debug", "Directory removed", replica_path), "ok")
                ELSE IF r.err = "PermissionError"
                THEN Step(r.fs, Log("warning", "Could not remove directory", replica_path), "ok")
                ELSE Step(r.fs, NoLog, r.err) : r \in rmtree(f, replica_path) }
         ELSE LET r == remove(f, replica_path)
              IN { IF r.err = "ok"
                   THEN Step(r.fs, Log("debug", "File removed", replica_path), "ok")
                   ELSE IF r.err = "PermissionError"
                   THEN Step(r.fs, Log("warning", "Could not remove file", replica_path), "ok")
                   ELSE Step(r.fs, NoLog, r.err) }
    ELSE { Step(f, NoLog, "ok") }

\* One iteration of the loop of cleanup_replica, for the item replica_path:
\* the set of possible outcomes (rmtree's order of removal is not fixed)
cleanup_replica(f, replica_path) ==
    LET relative_path == relpath(replica_path, replica_dir)
        source_path   == join(source_dir, relative_path)
    IN IF ~exists(f, source_path) /\ exists(f, replica_path)
       THEN IF isdir(f, replica_path)
            THEN { IF r.err = "ok"
                   THEN Step(r.fs, Log("debug", "Directory removed", replica_path), "ok")
                   ELSE IF r.err = "PermissionError"
                   THEN Step(r.fs, Log("warning", "Could not remove directory", replica_path), "ok")
                   ELSE Step(r.fs, NoLog, r.err) : r \in rmtree(f, replica_path) }
            ELSE LET r == remove(f, replica_path)
                 IN { IF r.err = "ok"
                      THEN Step(r.fs, Log("debug", "File removed", replica_path), "ok")
                      ELSE IF r.err = "PermissionError"
                      THEN Step(r.fs, Log("warning", "Could not remove file", replica_path), "ok")
                      ELSE Step(r.fs, NoLog, r.err) }
       ELSE { Step(f, NoLog, "ok") }

(* A worker thread running synchronize_directories.  pc: "step1" (started, *)
(* source not yet listed), "update_replica", "cleanup_replica", "done"     *)
(* (returned) or "crashed" (ended by the uncaught exception err).  items   *)
(* is the part of the list the running loop has not visited yet; warned    *)
(* holds the phases that logged a warning; started is the dispatch time.   *)
Worker(pc, items, warned, err, started) ==
    [pc |-> pc, items |-> items, warned |-> warned, err |-> err, started |-> started]

\* is_alive gone wrong: a thread ended by an exception still counts as running
is_alive_unless_returned(w) == w.pc # "done"

\* threading.Thread.is_alive
is_alive(w) == w.pc \notin {"done", "crashed"}

\* the thread the variable t of run() refers to
t == workers[Len(workers)]

Alive == { i \in 1..Len(workers) : is_alive(workers[i]) }

\* Advance gone wrong: the loop does not move on to the next item
Advance_without_progress(w, st, phase, rest, after) ==
    IF st.err # "ok" THEN Worker("crashed", << >>, w.warned, st.err, w.started)
    ELSE Worker(w.pc, w.items,
                IF st.log.level = "warning" THEN w.warned \cup {phase} ELSE w.warned,
                "ok", w.started)

\* the worker after one loop iteration that left st, with rest still to visit
\* and the function returning to `after` when the list is exhausted
Advance(w, st, phase, rest, after) ==
    IF st.err # "ok" THEN Worker("crashed", << >>, w.warned, st.err, w.started)
    ELSE Worker(IF rest = << >> THEN after ELSE w.pc, rest,
                IF st.log.level = "warning" THEN w.warned \cup {phase} ELSE w.warned,
                "ok", w.started)

Frame == UNCHANGED <<source_dir, replica_dir, period, main_pc, now, prev_call_time,
                     eligible, missed, external>>

\* synchronize_directories, line 96: list the source
FetchSource(i) ==
    /\ workers[i].pc = "step1"
    /\ \E items_to_sync \in fetch_files_and_dirs(fs, source_dir) :
          workers' = [workers EXCEPT ![i] =
                         Worker("update_replica", items_to_sync, @.warned, "ok", @.started)]
    /\ lastLog' = NoLog
    /\ UNCHANGED fs
    /\ Frame

\* update_replica: one iteration of its loop
UpdateItem(i) ==
    /\ workers[i].pc = "update_replica"
    /\ workers[i].items # << >>
    /\ LET st == update_replica(fs, Head(workers[i].items))
       IN /\ fs' = st.fs
          /\ lastLog' = st.log
          /\ workers' = [workers EXCEPT ![i] =
                            Advance(@, st, "update", Tail(@.items), "update_replica")]
    /\ Frame

\* FetchReplica gone wrong: the replica is listed while update_replica still
\* has items to visit
FetchReplica_during_update(i) ==
    /\ workers[i].pc = "update_replica"
    /\ \E items_to_verify \in fetch_files_and_dirs(fs, replica_dir) :
          workers' = [workers EXCEPT ![i] =
                         Worker(IF items_to_verify = << >> THEN "done" ELSE "cleanup_replica",
                                items_to_verify, @.warned, "ok", @.started)]
    /\ lastLog' = NoLog
    /\ UNCHANGED fs
    /\ Frame

\* synchronize_directories, line 100: update_replica has returned; list the replica
FetchReplica(i) ==
    /\ workers[i].pc = "update_replica"
    /\ workers[i].items = << >>
    /\ \E items_to_verify \in fetch_files_and_dirs(fs, replica_dir) :
          workers' = [workers EXCEPT ![i] =
                         Worker(IF items_to_verify = << >> THEN "done" ELSE "cleanup_replica",
                                items_to_verify, @.warned, "ok", @.started)]
    /\ lastLog' = NoLog
    /\ UNCHANGED fs
    /\ Frame

\* cleanup_replica: one iteration of its loop; the thread ends after the last
CleanupItem(i) ==
    /\ workers[i].pc = "cleanup_replica"
    /\ workers[i].items # << >>
    /\ \E st \in cleanup_replica(fs, Head(workers[i].items)) :
          /\ fs' = st.fs
          /\ lastLog' = st.log
          /\ workers' = [workers EXCEPT ![i] =
                            Advance(@, st, "cleanup", Tail(@.items), "done")]
    /\ Frame

\* FileSynchronizer.initialize (main.py line 58): create the replica root if missing
initialize ==
    /\ main_pc = "initialize"
    /\ IF ~exists(fs, replica_dir)
       THEN LET r == makedirs(fs, replica_dir)
            IN /\ fs' = r.fs
               /\ main_pc' = IF r.err = "ok" THEN "run" ELSE "exit"
               /\ lastLog' = IF r.err = "ok"
                             THEN Log("debug", "Replica directory created", replica_dir)
                             ELSE NoLog
       ELSE /\ fs' = fs
            /\ main_pc' = "run"
            /\ lastLog' = NoLog
    /\ UNCHANGED <<source_dir, replica_dir, period, now, prev_call_time, workers,
                   eligible, missed, external>>

\* run_start gone wrong: no thread is started before the loop
run_without_first_thread ==
    /\ main_pc = "run"
    /\ prev_call_time' = now
    /\ main_pc' = "loop"
    /\ lastLog' = NoLog
    /\ UNCHANGED <<fs, source_dir, replica_dir, period, now, workers, eligible, missed,
                   external>>

\* run(), lines 75-77: the first thread is started before the loop
run_start ==
    /\ main_pc = "run"
    /\ prev_call_time' = now
    /\ workers' = Append(workers, Worker("step1", << >>, {}, "ok", now))
    /\ main_pc' = "loop"
    /\ lastLog' = NoLog
    /\ UNCHANGED <<fs, source_dir, replica_dir, period, now, eligible, missed, external>>

\* dispatch_condition gone wrong: the thread's liveness is not asked
dispatch_ignoring_thread(curr_call_time) ==
    curr_call_time - prev_call_time >= period

\* dispatch_condition gone wrong: t is never reassigned, the first thread is asked
dispatch_asking_first_thread(curr_call_time) ==
    curr_call_time - prev_call_time >= period /\ ~is_alive(workers[1])

\* dispatch_condition gone wrong: the period must be exceeded, not reached
dispatch_after_period(curr_call_time) ==
    curr_call_time - prev_call_time > period /\ ~is_alive(t)

\* run(), line 81: the condition under which the loop starts a new thread
dispatch_condition(curr_call_time) ==
    curr_call_time - prev_call_time >= period /\ ~is_alive(t)

\* run(), lines 79-84: one iteration of the loop, the clock stopping at horizon.
\* The two history counters record what the iteration found, whatever it did.
run_loop(horizon) ==
    /\ main_pc = "loop"
    /\ \E d \in 1..MaxSleep :
          /\ now + d <= horizon
          /\ now' = now + d
          /\ LET curr_call_time == now + d
                 elapsed == curr_call_time - prev_call_time >= period
             IN /\ IF dispatch_condition(curr_call_time)
                   THEN /\ prev_call_time' = curr_call_time
                        /\ workers' = Append(workers,
                                             Worker("step1", << >>, {}, "ok", curr_call_time))
                   ELSE UNCHANGED <<prev_call_time, workers>>
                /\ eligible' = IF elapsed /\ Alive = {} THEN eligible + 1 ELSE eligible
                /\ missed' = IF elapsed /\ Alive # {} THEN missed + 1 ELSE missed
    /\ lastLog' = NoLog
    /\ UNCHANGED <<fs, source_dir, replica_dir, period, main_pc, external>>

Min(a, b) == IF a < b THEN a ELSE b

\* run(), lines 79-84, for runs of any length: one iteration of the loop.  Line
\* 81 reads the clock only through curr_call_time - prev_call_time and the
\* threads only through t, so the clock is kept relative to the last dispatch
\* (and stops counting beyond the largest period) and a thread t no longer
\* refers to is forgotten.  The history counters are not kept.
run_forever ==
    /\ main_pc = "loop"
    /\ \E d \in 1..MaxSleep :
          LET curr_call_time == now + d
          IN IF dispatch_condition(curr_call_time)
             THEN /\ now' = 0
                  /\ prev_call_time' = 0
                  /\ workers' = << Worker("step1", << >>, {}, "ok", 0) >>
             ELSE /\ now' = Min(curr_call_time, prev_call_time + MaxPeriod)
                  /\ UNCHANGED <<prev_call_time, workers>>
    /\ lastLog' = NoLog
    /\ UNCHANGED <<fs, source_dir, replica_dir, period, main_pc, eligible, missed, external>>

\* a step of a worker thread
synchronize_directories ==
    \/ \E i \in 1..Len(workers) : FetchSource(i)
    \/ \E i \in 1..Len(workers) : UpdateItem(i)
    \/ \E i \in 1..Len(workers) : FetchReplica(i)
    \/ \E i \in 1..Len(workers) : CleanupItem(i)

\* what another process leaves at a path it writes
ExternalNodes ==
    { DirNode(TRUE), FileNode(<<1, 1>>, 2, TRUE), FileNode(<<2, 1>>, 2, TRUE) }

\* Another process creates, rewrites or deletes an entry below one of the two
\* roots, at any moment of the run (no lock guards the calls of lines 96-101,
\* 116-129 and 148-161), at most MaxExternal times.
ExternalChange ==
    /\ main_pc = "loop"
    /\ external < MaxExternal
    /\ \E root \in {source_dir, replica_dir}, rel \in Entries(fs, source_dir)
                                                    \cup Entries(fs, replica_dir)
                                                    \cup { <<"a">>, <<"b">> } :
          LET p == join(root, rel)
          IN \/ /\ ~exists(fs, p)
                /\ isdir(fs, Parent(p))
                /\ \E n \in ExternalNodes : fs' = With(fs, p, n)
             \/ /\ isfile(fs, p)
                /\ \E n \in ExternalNodes :
                      /\ n.kind = "file"
                      /\ n.data # fs[p].data
                      /\ fs' = With(fs, p, n)
             \/ /\ exists(fs, p)
                /\ fs' = Without(fs, { q \in DOMAIN fs : IsPrefix(p, q) })
    /\ external' = external + 1
    /\ lastLog' = NoLog
    /\ UNCHANGED <<source_dir, replica_dir, period, main_pc, now, prev_call_time, workers,
                   eligible, missed>>

\* The lists update_replica (line 103) and cleanup_replica (line 134) can be
\* handed when the order of a listing is left open: every order of the entries
\* below directory.
any_order(f, directory) == Perms({ p \in DOMAIN f : Under(directory, p) })

\* synchronize_directories, lines 96-97, update_replica handed any order
UpdateAnyOrder(i) ==
    /\ workers[i].pc = "step1"
    /\ \E items_to_sync \in any_order(fs, source_dir) :
          workers' = [workers EXCEPT ![i] =
                         Worker("update_replica", items_to_sync, @.warned, "ok", @.started)]
    /\ lastLog' = NoLog
    /\ UNCHANGED fs
    /\ Frame

\* synchronize_directories, lines 100-101, cleanup_replica handed any order
CleanupAnyOrder(i) ==
    /\ workers[i].pc = "update_replica"
    /\ workers[i].items = << >>
    /\ \E items_to_verify \in any_order(fs, replica_dir) :
          workers' = [workers EXCEPT ![i] =
                         Worker(IF items_to_verify = << >> THEN "done" ELSE "cleanup_replica",
                                items_to_verify, @.warned, "ok", @.started)]
    /\ lastLog' = NoLog
    /\ UNCHANGED fs
    /\ Frame

\* Another process takes the source root away with all it holds (the tree is
\* deleted, its volume unmounted) between two passes; os.walk (line 185) and
\* os.path.exists (line 148) then find nothing there.
SourceLost ==
    /\ main_pc \in {"run", "loop"}
    /\ Alive = {}
    /\ exists(fs, source_dir)
    /\ ~IsPrefix(source_dir, replica_dir)
    /\ fs' = Without(fs, { p \in DOMAIN fs : IsPrefix(source_dir, p) })
    /\ external' = external + 1
    /\ lastLog' = NoLog
    /\ UNCHANGED <<source_dir, replica_dir, period, main_pc, now, prev_call_time, workers,
                   eligible, missed>>

----------------------------------------------------------------------------
(* Initial states: the file system main.py is started on, the arguments    *)
(* it is given (validate_args: the source exists), the object constructed. *)

RelPaths == { <<"a">>, <<"b">>, <<"a", "b">> }

\* the directory trees over RelPaths whose nodes are drawn from Nodes
Trees(Nodes) ==
    UNION { { tr \in [D -> Nodes] : \A p \in D : Len(p) > 1 => tr[Parent(p)].kind = "dir" } :
            D \in { E \in SUBSET RelPaths : \A p \in E : Len(p) > 1 => Parent(p) \in E } }

SourceNodes == { DirNode(TRUE) } \cup { FileNode(c, 1, TRUE) : c \in Contents }

ReplicaNodes(W) ==
    { DirNode(w) : w \in W } \cup { FileNode(c, m, w) : c \in Contents, m \in {1, 2}, w \in W }

ReadOnly(tr) == { p \in DOMAIN tr : ~tr[p].w }

\* the tree tr mounted at root, whose node is rootNode, below writable ancestors
Mount(root, rootNode, tr) ==
    [p \in { SubSeq(root, 1, k) : k \in 1..Len(root) } \cup { root \o q : q \in DOMAIN tr } |->
        IF p = root THEN rootNode
        ELSE IF Under(root, p) THEN tr[relpath(p, root)]
        ELSE DirNode(TRUE)]

Disjoint == [source |-> <<"s">>, replica |-> <<"r">>]

\* where the two roots can lie relative to each other
Layouts ==
    { Disjoint,
      [source |-> <<"r", "s">>, replica |-> <<"r">>],
      [source |-> <<"s">>, replica |-> <<"s", "r">>],
      [source |-> <<"s">>, replica |-> <<"s">>] }

\* a replica directory to start on: its root node and the tree below it, or a
\* root that does not exist yet
Replica(rootNode, tr) == [present |-> TRUE, root |-> rootNode, tree |-> tr]

NoReplica == [present |-> FALSE, root |-> DirNode(TRUE), tree |-> << >>]

InitWith(layouts, sourceTrees, replicas, periods) ==
    /\ \E L \in layouts, st \in sourceTrees, rp \in replicas :
          /\ source_dir = L.source
          /\ replica_dir = L.replica
          /\ fs = IF rp.present
                  THEN Mount(L.source, DirNode(TRUE), st) @@ Mount(L.replica, rp.root, rp.tree)
                  ELSE Mount(L.source, DirNode(TRUE), st)
    /\ period \in periods
    /\ main_pc = "initialize"
    /\ now = 0
    /\ prev_call_time = 0
    /\ workers = << >>
    /\ lastLog = NoLog
    /\ eligible = 0
    /\ missed = 0
    /\ external = 0

\* every source tree, every writable replica tree (or none yet)
Init ==
    InitWith({ Disjoint }, Trees(SourceNodes),
             { NoReplica } \cup { Replica(DirNode(TRUE), tr) : tr \in Trees(ReplicaNodes({TRUE})) },
             { 1 })

Next == initialize \/ run_start \/ run_loop(PassTime) \/ synchronize_directories

Spec == Init /\ [][Next]_vars

\* Permission failures: source and replica trees of matching kinds, the replica
\* holding at most MaxReadOnly read-only nodes (its root included)
KindsAgree(st, rt) == \A p \in DOMAIN st \cap DOMAIN rt : st[p].kind = rt[p].kind

FaultSourceTrees == Trees({ DirNode(TRUE), FileNode(<<1, 1>>, 1, TRUE) })

FaultReplicas ==
    { rp \in { Replica(DirNode(w), tr) :
                   w \in BOOLEAN,
                   tr \in Trees({ DirNode(TRUE), DirNode(FALSE),
                                  FileNode(<<1, 1>>, 1, TRUE), FileNode(<<1, 1>>, 1, FALSE),
                                  FileNode(<<2, 1>>, 1, TRUE), FileNode(<<2, 1>>, 1, FALSE) }) } :
        Cardinality(ReadOnly(rp.tree)) + (IF rp.root.w THEN 0 ELSE 1) <= MaxReadOnly }

InitFaults ==
    /\ InitWith({ Disjoint }, FaultSourceTrees, FaultReplicas, { 1 })
    /\ KindsAgree([rel \in Entries(fs, source_dir) |-> fs[join(source_dir, rel)]],
                  [rel \in Entries(fs, replica_dir) |-> fs[join(replica_dir, rel)]])

SpecFaults == InitFaults /\ [][Next]_vars

\* Kinds: a replica whose entries may be of another kind than the source's,
\* no two contents sharing a digest, nothing read-only
InitKinds ==
    InitWith({ Disjoint }, FaultSourceTrees,
             { Replica(DirNode(TRUE), tr) :
                   tr \in Trees({ DirNode(TRUE), FileNode(<<1, 1>>, 1, TRUE),
                                  FileNode(<<1, 1>>, 2, TRUE), FileNode(<<2, 1>>, 1, TRUE) }) },
             { 1 })

SpecKinds == InitKinds /\ [][Next]_vars

\* Every placement of the two roots, the replica empty or not yet created
InitRoots ==
    InitWith(Layouts, FaultSourceTrees, { NoReplica, Replica(DirNode(TRUE), << >>) }, { 1 })

SpecRoots == InitRoots /\ [][Next]_vars

\* The scheduler: every period, a longer run of the clock, passes of a few
\* steps, one of which ends in an uncaught exception
SchedSources == { (<<"a">> :> FileNode(<<1, 1>>, 1, TRUE)) }

SchedReplicas ==
    { Replica(DirNode(TRUE), (<<"b">> :> FileNode(<<1, 1>>, 1, TRUE))),
      Replica(DirNode(TRUE), (<<"a">> :> DirNode(TRUE))) }

Periods == (-1)..MaxPeriod

InitSched == InitWith({ Disjoint }, SchedSources, SchedReplicas, Periods)

NextSched == initialize \/ run_start \/ run_loop(MaxTime) \/ synchronize_directories

SpecSched == InitSched /\ [][NextSched]_vars

\* The source root disappearing between two passes, over a replica of
\* matching kinds with nothing read-only
InitLost ==
    /\ InitWith({ Disjoint }, FaultSourceTrees,
                { Replica(DirNode(TRUE), tr) :
                      tr \in Trees({ DirNode(TRUE), FileNode(<<1, 1>>, 1, TRUE),
                                     FileNode(<<2, 1>>, 1, TRUE) }) },
                { 1 })
    /\ KindsAgree([rel \in Entries(fs, source_dir) |-> fs[join(source_dir, rel)]],
                  [rel \in Entries(fs, replica_dir) |-> fs[join(replica_dir, rel)]])

NextLost == Next \/ SourceLost

SpecLost == InitLost /\ [][NextLost]_vars

\* Runs of any length: the loop never ends, sleep returns and the thread is
\* scheduled, so each of the four is taken if it stays possible
NextLive == initialize \/ run_start \/ run_forever \/ synchronize_directories

InitLive ==
    InitWith({ Disjoint }, FaultSourceTrees,
             { NoReplica } \cup
             { Replica(DirNode(TRUE), tr) :
                   tr \in Trees({ DirNode(TRUE), FileNode(<<1, 1>>, 1, TRUE),
                                  FileNode(<<2, 1>>, 1, TRUE) }) },
             { 0, 2 })

SpecLive ==
    /\ InitLive
    /\ [][NextLive]_vars
    /\ WF_vars(initialize)
    /\ WF_vars(run_start)
    /\ WF_vars(run_forever)
    /\ WF_vars(synchronize_directories)

\* Runs of any length on a replica that mirrors the source, the two trees
\* being changed by other processes meanwhile
InitRaces ==
    /\ InitWith({ Disjoint }, FaultSourceTrees,
                { Replica(DirNode(TRUE), tr) : tr \in FaultSourceTrees },
                { 1 })
    /\ \A rel \in RelPaths :
          /\ exists(fs, join(source_dir, rel)) <=> exists(fs, join(replica_dir, rel))
          /\ exists(fs, join(source_dir, rel)) =>
                fs[join(replica_dir, rel)] = fs[join(source_dir, rel)]

NextRaces == NextLive \/ ExternalChange

SpecRaces ==
    /\ InitRaces
    /\ [][NextRaces]_vars
    /\ WF_vars(initialize)
    /\ WF_vars(run_start)
    /\ WF_vars(run_forever)
    /\ WF_vars(synchronize_directories)

\* The two loops handed their lists in any order, over trees of matching
\* kinds with nothing read-only
NextOrders ==
    \/ initialize
    \/ run_start
    \/ run_loop(PassTime)
    \/ \E i \in 1..Len(workers) : UpdateAnyOrder(i)
    \/ \E i \in 1..Len(workers) : UpdateItem(i)
    \/ \E i \in 1..Len(workers) : CleanupAnyOrder(i)
    \/ \E i \in 1..Len(workers) : CleanupItem(i)

SpecOrders == InitLost /\ [][NextOrders]_vars

----------------------------------------------------------------------------
(* What the claims speak about *)

\* the replica has the source's relative paths and kinds
SameStructure ==
    /\ Entries(fs, replica_dir) = Entries(fs, source_dir)
    /\ \A rel \in Entries(fs, source_dir) :
          fs[join(replica_dir, rel)].kind = fs[join(source_dir, rel)].kind

\* every file both trees hold has the same content in both
SameContent ==
    \A rel \in Entries(fs, source_dir) \cap Entries(fs, replica_dir) :
        (isfile(fs, join(source_dir, rel)) /\ isfile(fs, join(replica_dir, rel)))
            => fs[join(replica_dir, rel)].data = fs[join(source_dir, rel)].data

\* every file both trees hold has the same MD5 digest in both
SameDigest ==
    \A rel \in Entries(fs, source_dir) \cap Entries(fs, replica_dir) :
        (isfile(fs, join(source_dir, rel)) /\ isfile(fs, join(replica_dir, rel)))
            => fs[join(replica_dir, rel)].data[1] = fs[join(source_dir, rel)].data[1]

\* the latest pass returned and logged no warning
CleanPass(w) == w.pc = "done" /\ w.warned = {}

\* C1 (as claimed): after a pass that finishes without a warning or an uncaught
\* error, the replica has the source's paths and kinds and every replica file
\* has its source counterpart's content.
C1_Convergence ==
    (workers # << >> /\ CleanPass(t)) => (SameStructure /\ SameContent)

\* the part of the file system at and below the source root
SourceTree == [p \in { q \in DOMAIN fs : IsPrefix(source_dir, q) } |-> fs[p]]

\* this step is a step of a worker thread (of update_replica or cleanup_replica
\* or one of the two listings)
WorkerStep == Len(workers') = Len(workers) /\ workers' # workers

\* C2 (as claimed): no step of a pass creates, overwrites or deletes anything at
\* or below the source root, wherever the two roots lie.
C2_SourceNeverModified == [][WorkerStep => SourceTree' = SourceTree]_vars

\* C3: at most one worker thread is alive in every reachable state, and a
\* thread is only ever started while none is alive.
C3_AtMostOnePass ==
    /\ [](Cardinality(Alive) <= 1)
    /\ [][Len(workers') > Len(workers) => Alive = {}]_vars

\* C3's case: the period (0) has elapsed at a tick while the pass was still
\* running, and the running pass is still the only one.
C3_Witness == period = 0 /\ missed >= 1 /\ Cardinality(Alive) = 1 /\ Len(workers) = 1

\* C4: once a pass has returned with no deletion refused, the replica holds no
\* entry whose relative path is missing from the source.
C4_DeletionCompleteness ==
    (workers # << >> /\ t.pc = "done" /\ "cleanup" \notin t.warned)
        => Entries(fs, replica_dir) \subseteq Entries(fs, source_dir)

\* C4's case: the pass has just ended by removing a redundant directory, after
\* an update phase that was refused something.
C4_Witness ==
    /\ workers # << >>
    /\ t.pc = "done"
    /\ t.warned = {"update"}
    /\ lastLog.msg = "Directory removed"

\* the pass before the latest one returned without a warning
PreviousPassClean == Len(workers) >= 2 /\ CleanPass(workers[Len(workers) - 1])

\* C5: every step of a pass that follows a pass completed without warning or
\* error leaves the file system as it is, logs nothing (no directory created,
\* no file copied, nothing deleted) and does not end in an exception.
C5_Idempotence ==
    [][(PreviousPassClean /\ WorkerStep) =>
          /\ fs' = fs
          /\ lastLog' = NoLog
          /\ workers'[Len(workers)].pc # "crashed"]_vars

\* C5's case: a second pass has run to its end after a clean first pass, over a
\* source holding a directory with a file in it and a file beside it.
C5_Witness ==
    /\ PreviousPassClean
    /\ t.pc = "done"
    /\ Entries(fs, source_dir) = RelPaths
    /\ isfile(fs, join(source_dir, <<"a", "b">>))

\* worker i is about to visit a source file whose replica counterpart is a file
VisitingFilePair(i) ==
    /\ workers[i].pc = "update_replica"
    /\ workers[i].items # << >>
    /\ isfile(fs, Head(workers[i].items))
    /\ isfile(fs, join(replica_dir, relpath(Head(workers[i].items), source_dir)))

SourceOf(i) == Head(workers[i].items)

ReplicaOf(i) == join(replica_dir, relpath(Head(workers[i].items), source_dir))

\* C6 (as claimed): the updater copies a source file over an existing replica
\* file exactly when their contents differ.
C6_CopiesIffContentDiffers ==
    [][\A i \in 1..Len(workers) :
          (VisitingFilePair(i) /\ workers'[i] # workers[i]) =>
              ((lastLog' = Log("debug", "File copied", ReplicaOf(i)))
                  <=> (fs[ReplicaOf(i)].data # fs[SourceOf(i)].data))]_vars

\* C6 (amended): the updater copies a source file over an existing replica file
\* exactly when their MD5 digests differ; a replica file with its source
\* counterpart's content is left as it is, modification time included.
C6_CopiesIffDigestDiffers ==
    [][\A i \in 1..Len(workers) :
          (VisitingFilePair(i) /\ workers'[i] # workers[i]) =>
              /\ (lastLog' = Log("debug", "File copied", ReplicaOf(i)))
                    <=> (fs[ReplicaOf(i)].data[1] # fs[SourceOf(i)].data[1])
              /\ (fs[ReplicaOf(i)].data = fs[SourceOf(i)].data) => fs' = fs]_vars

\* C6's case: the updater has visited the source's only entry, a file whose
\* replica counterpart has the same content and another modification time,
\* and the replica file still has that modification time.
C6_Witness ==
    /\ workers # << >>
    /\ t.pc = "update_replica"
    /\ t.items = << >>
    /\ Entries(fs, source_dir) = { <<"a">> }
    /\ isfile(fs, <<"s", "a">>) /\ isfile(fs, <<"r", "a">>)
    /\ fs[<<"r", "a">>].data = fs[<<"s", "a">>].data
    /\ fs[<<"r", "a">>].mtime # fs[<<"s", "a">>].mtime

\* C7 (as claimed, its last part): the passes dispatched never outnumber the
\* ticks at which the period had elapsed and no worker was running.
C7_DispatchesWithinEligibleTicks == Len(workers) <= eligible

\* C7 (amended): no pass is dispatched while one runs, a tick dispatches at most
\* one pass however many periods went by, and the passes dispatched are the
\* startup pass plus one per tick at which the period had elapsed and no
\* worker was running.
C7_SkipNotQueue ==
    /\ [][Alive # {} => Len(workers') = Len(workers)]_vars
    /\ [][Len(workers') <= Len(workers) + 1]_vars
    /\ [](main_pc = "loop" => Len(workers) = 1 + eligible)

\* C7's case: with period 1 the first pass overran two ticks; the second pass
\* was dispatched at time 3 and no other followed at that tick.
C7_Witness ==
    /\ period = 1
    /\ missed >= 2
    /\ Len(workers) = 2
    /\ t.started = 3
    /\ now = 3

\* C8: once run() is in its loop, the first pass has been dispatched, at the
\* time run() was entered (0) and so before any tick.
C8_FirstPassAtStartup ==
    main_pc = "loop" => (workers # << >> /\ workers[1].started = 0)

\* C8's case: run() has entered its loop with the longest period and no tick
\* has elapsed.
C8_Witness == main_pc = "loop" /\ now = 0 /\ period = MaxPeriod /\ Len(workers) = 1

\* C9: a tick dispatches a pass and records the current time exactly when the
\* period has elapsed since the last dispatch and no pass is running, and
\* otherwise leaves the dispatch time and the threads alone; consecutive
\* dispatches are at least a period apart.
C9_DispatchRule ==
    /\ [][now' # now =>
            IF now' - prev_call_time >= period /\ Alive = {}
            THEN /\ prev_call_time' = now'
                 /\ Len(workers') = Len(workers) + 1
                 /\ SubSeq(workers', 1, Len(workers)) = workers
                 /\ is_alive(workers'[Len(workers')])
            ELSE /\ prev_call_time' = prev_call_time
                 /\ workers' = workers]_vars
    /\ [](\A i \in 2..Len(workers) : workers[i].started - workers[i - 1].started >= period)

\* C9's case: with period 2, passes were dispatched at 0, 2 and 4.
C9_Witness ==
    /\ period = 2
    /\ Len(workers) = 3
    /\ workers[2].started = 2
    /\ workers[3].started = 4

\* C10 (as claimed): a pass whose updater was refused a directory or a file
\* (and logged the warning) is not ended by an exception.
C10_UpdaterToleratesRefusal ==
    \A i \in 1..Len(workers) : "update" \in workers[i].warned => workers[i].pc # "crashed"

\* the elements of a list
Range(seq) == { seq[k] : k \in 1..Len(seq) }

\* the item the pruner of worker i is about to visit has no source counterpart
\* and exists
Redundant(i) ==
    /\ ~exists(fs, join(source_dir, relpath(Head(workers[i].items), replica_dir)))
    /\ exists(fs, Head(workers[i].items))

\* worker i takes a step of the loop of cleanup_replica
PrunerStep(i) ==
    /\ workers[i].pc = "cleanup_replica"
    /\ workers[i].items # << >>
    /\ workers'[i] # workers[i]

\* C11: a removal the pruner is refused (the redundant entry is still there
\* after its iteration) is logged as a warning for that entry; the thread is
\* not ended by it, the loop goes on with exactly the remaining entries, and
\* the refused entry is not among them (no second attempt in the pass).
C11_PrunerToleratesRefusal ==
    [][\A i \in 1..Len(workers) : PrunerStep(i) =>
          /\ workers'[i].pc # "crashed"
          /\ workers'[i].items = Tail(workers[i].items)
          /\ Head(workers[i].items) \notin Range(Tail(workers[i].items))
          /\ (Redundant(i) /\ exists(fs', Head(workers[i].items))) =>
                /\ lastLog'.level = "warning"
                /\ lastLog'.path = Head(workers[i].items)
                /\ "cleanup" \in workers'[i].warned
          /\ (lastLog'.level = "warning") =>
                (Redundant(i) /\ exists(fs', Head(workers[i].items)))]_vars

\* C11's case: after a removal was refused, the pruner has gone on and removed
\* another redundant entry.
C11_Witness ==
    /\ workers # << >>
    /\ "cleanup" \in t.warned
    /\ lastLog = Log("debug", "File removed", <<"r", "b">>)

\* C12 (as claimed): a pass that lists a root that is not there is ended by the
\* error; in particular no step of a pass that runs while the source root is
\* missing creates, overwrites or deletes anything.
C12_MissingRootAbortsPass ==
    [][(WorkerStep /\ ~exists(fs, source_dir)) => fs' = fs]_vars

\* C13: a thread ended by an uncaught exception leaves the main loop running,
\* and the first tick that finds it ended starts a new thread exactly when the
\* period has elapsed since the last dispatch (recording the tick's time as the
\* new dispatch time), as it does after a thread that returned.
C13_CrashedWorkerDoesNotBlock ==
    /\ []((workers # << >> /\ t.pc = "crashed") => main_pc = "loop")
    /\ [][(now' # now /\ workers # << >> /\ t.pc = "crashed") =>
            IF now' - prev_call_time >= period
            THEN /\ Len(workers') = Len(workers) + 1
                 /\ workers'[Len(workers')].pc = "step1"
                 /\ prev_call_time' = now'
            ELSE UNCHANGED <<workers, prev_call_time>>]_vars

\* C13's case: the first pass was ended by an exception and the second one was
\* started one period after the first.
C13_Witness ==
    /\ Len(workers) >= 2
    /\ workers[1].pc = "crashed"
    /\ period >= 1
    /\ workers[2].started = workers[1].started + period

\* what update_replica and cleanup_replica hand to the logger
UpdaterLogs == { "Directory created", "Could not create directory",
                 "File copied", "Could not copy file" }

PrunerLogs == { "Directory removed", "Could not remove directory",
                "File removed", "Could not remove file" }

\* C14: within a pass the replica is listed for the pruner only when the
\* updater has visited its whole list, and the list is a listing of the file
\* system as the updater left it; from then on the pass only removes (it logs
\* only removals, adds and overwrites nothing, and never returns to the
\* updater), and before then it removes nothing and logs no removal.
C14_UpdaterBeforePruner ==
    [][\A i \in 1..Len(workers) :
          /\ (workers[i].pc = "update_replica" /\ workers'[i].pc \in {"cleanup_replica", "done"}) =>
                /\ workers[i].items = << >>
                /\ fs' = fs
                /\ workers'[i].items \in fetch_files_and_dirs(fs, replica_dir)
          /\ (workers[i].pc = "update_replica" /\ workers'[i] # workers[i]) =>
                /\ DOMAIN fs \subseteq DOMAIN fs'
                /\ lastLog'.msg \notin PrunerLogs
          /\ (workers[i].pc = "cleanup_replica" /\ workers'[i] # workers[i]) =>
                /\ workers'[i].pc \in {"cleanup_replica", "done"}
                /\ DOMAIN fs' \subseteq DOMAIN fs
                /\ \A p \in DOMAIN fs' : fs'[p] = fs[p]
                /\ lastLog'.msg \notin UpdaterLogs
          /\ (workers[i].pc = "done") => workers'[i].pc = "done"]_vars

\* C14's case: the first pass has created the three entries of the source in
\* an empty replica, and the list its pruner holds names all three.
C14_Witness ==
    /\ Len(workers) = 1
    /\ t.pc = "cleanup_replica"
    /\ Cardinality(Entries(fs, source_dir)) = 3
    /\ Range(t.items) = { join(replica_dir, rel) : rel \in Entries(fs, source_dir) }

\* C15 (as claimed): other processes having changed entries of the two trees
\* while passes ran, and having stopped, the passes that follow leave the
\* replica with the source's paths, kinds and contents, for good.
C15_RacesConverge == <>[](SameStructure /\ SameContent)

\* C16: whatever the order of its list, an iteration of the pruner attempts a
\* removal (and logs its outcome) only for an entry that, when the iteration
\* begins, exists in the replica and has no counterpart in the source; every
\* other entry, among them one swept away with an ancestor earlier in the
\* pass, is passed over without a call, and no iteration ends the thread.
C16_PrunerRechecks ==
    [][\A i \in 1..Len(workers) : PrunerStep(i) =>
          /\ workers'[i].pc # "crashed"
          /\ (lastLog'.msg \in PrunerLogs) =>
                (Redundant(i) /\ lastLog'.path = Head(workers[i].items))
          /\ (~Redundant(i)) => (fs' = fs /\ lastLog' = NoLog)
          /\ Redundant(i) => lastLog'.msg \in PrunerLogs]_vars

\* C16's case: a directory has just been removed with all it held, and the
\* next entry of the list is one it held.
C16_Witness ==
    /\ workers # << >>
    /\ t.pc = "cleanup_replica"
    /\ lastLog.msg = "Directory removed"
    /\ Under(lastLog.path, Head(t.items))
    /\ ~exists(fs, Head(t.items))

\* C17 (as claimed): whatever the order of the list update_replica is handed
\* and of the list cleanup_replica is handed, the pass returns, and it leaves
\* the one replica every order leaves: the source's paths, kinds and contents.
C17_OrderIndependence ==
    \A i \in 1..Len(workers) :
        /\ workers[i].pc # "crashed"
        /\ (i = Len(workers) /\ workers[i].pc = "done") => (SameStructure /\ SameContent)

\* C18: under weak fairness of the loop and of the thread, every pass that is
\* running ends (it returns or is ended by an uncaught exception), whatever
\* the two trees hold, and a new pass is started again and again, for ever.
C18_PassesEndAndRecur ==
    /\ (Alive # {}) ~> (Alive = {})
    /\ []<>(workers # << >> /\ t.pc = "step1")

\* C18's case: a pass has been ended by an uncaught exception and the period
\* has elapsed since it was started.
C18_Witness ==
    /\ workers # << >>
    /\ t.pc = "crashed"
    /\ period = 2
    /\ now - prev_call_time >= period

\* C19: every path a step of a pass removes, by a removal of its own or with
\* a directory that held it, lies below the replica root and has no
\* counterpart in the source when the step begins; the replica root itself
\* outlives every step.
C19_NoOverDeletion ==
    [][WorkerStep =>
          /\ \A p \in (DOMAIN fs) \ (DOMAIN fs') :
                /\ Under(replica_dir, p)
                /\ ~exists(fs, join(source_dir, relpath(p, replica_dir)))
          /\ exists(fs, replica_dir) => exists(fs', replica_dir)]_vars

\* C19's case: a redundant directory has been removed while a replica entry
\* the source also holds is still there.
C19_Witness ==
    /\ lastLog = Log("debug", "Directory removed", <<"r", "a">>)
    /\ exists(fs, <<"s", "b">>)
    /\ exists(fs, <<"r", "b">>)

====
